---- MODULE Spec2Model ----
(***************************************************************************)
(* Model of call_tracker_app_real.py: the polling thread                   *)
(* (background_tracker), the page probe (track_once), the per-link event   *)
(* files (append_log), the heartbeat file (write_heartbeat /               *)
(* read_heartbeat), the link list (load_links and the sidebar "add link")  *)
(* and the Streamlit script run that starts the thread.                    *)
(*                                                                         *)
(* Text is a sequence of one-character strings.  A file is a record with   *)
(* an `exists` flag and its content.                                       *)
(***************************************************************************)
EXTENDS Integers, Sequences, FiniteSets, TLC

\* ------------------------------------------------------------------ bounds
MaxSessions == 2    \* browser sessions of the dashboard
MaxCycles   == 2    \* polling cycles started, over all threads
MaxCyclesSolo == 3  \* the same, when a single dashboard session is open
MaxLinks    == 2    \* lines in all_links.txt
MaxClock    == 1    \* readings of the wall clock that advance it
MaxCrashes  == 1    \* process kills followed by a restart
MaxHbLen    == 4    \* characters of an arbitrary heartbeat file
MaxHbCount  == 12   \* largest cycle count looked for in such a file
MaxUrlLen   == 3    \* characters of an arbitrary URL
MaxButtons  == 2    \* buttons of an arbitrary page

\* ------------------------------------------------------------ python text
Whitespace == {" ", "\n"}

Digits == <<"0", "1", "2", "3", "4", "5", "6", "7", "8", "9">>

DigitSet == {Digits[i] : i \in 1..10}

DigitVal(c) == (CHOOSE i \in 1..10 : Digits[i] = c) - 1

None == <<"None">>

RECURSIVE lstrip(_)
lstrip(s) ==
    IF s = <<>> THEN <<>>
    ELSE IF Head(s) \in Whitespace THEN lstrip(Tail(s)) ELSE s

RECURSIVE rstrip(_)
rstrip(s) ==
    IF s = <<>> THEN <<>>
    ELSE IF s[Len(s)] \in Whitespace THEN rstrip(SubSeq(s, 1, Len(s) - 1)) ELSE s

strip(s) == rstrip(lstrip(s))

RECURSIVE replace(_, _, _)
replace(s, old, new) ==
    IF Len(s) < Len(old) THEN s
    ELSE IF SubSeq(s, 1, Len(old)) = old
         THEN new \o replace(SubSeq(s, Len(old) + 1, Len(s)), old, new)
         ELSE <<Head(s)>> \o replace(Tail(s), old, new)

\* str(n) for n >= 0
RECURSIVE str(_)
str(n) == IF n < 10 THEN <<Digits[n + 1]>> ELSE str(n \div 10) \o <<Digits[(n % 10) + 1]>>

\* value of a non-empty sequence of digits
RECURSIVE digitsValue(_)
digitsValue(s) ==
    IF Len(s) = 1 THEN DigitVal(s[1])
    ELSE 10 * digitsValue(SubSeq(s, 1, Len(s) - 1)) + DigitVal(s[Len(s)])

\* int(s): surrounding whitespace and one sign are accepted, anything else
\* raises ValueError
int(s) ==
    LET t    == strip(s)
        sgn  == t # <<>> /\ Head(t) \in {"-", "+"}
        body == IF sgn THEN Tail(t) ELSE t
    IN  IF body = <<>> \/ \E i \in 1..Len(body) : body[i] \notin DigitSet
        THEN [exc |-> "ValueError", val |-> 0]
        ELSE [exc |-> "",
              val |-> IF sgn /\ Head(t) = "-" THEN 0 - digitsValue(body)
                      ELSE digitsValue(body)]

\* f.readlines(): the lines of the content, each with its newline
RECURSIVE readlines(_)
readlines(data) ==
    IF data = <<>> THEN <<>>
    ELSE LET nl == {i \in 1..Len(data) : data[i] = "\n"}
             n  == IF nl = {} THEN Len(data)
                   ELSE CHOOSE i \in nl : \A j \in nl : i <= j
         IN  <<SubSeq(data, 1, n)>> \o readlines(SubSeq(data, n + 1, Len(data)))

\* datetime.strftime("%Y-%m-%d %H:%M:%S"): fixed width, zero padded
strftime(t) == <<Digits[((t \div 10) % 10) + 1], Digits[(t % 10) + 1]>>

\* ------------------------------------------------------------ inputs
DefaultLink == <<"h", ":", "/", "/", "d">>

\* what the operator types into the sidebar text box
NewInputs == { <<"a", "/", "b">>, <<"a", "/", "b", " ">>, <<"a", "_", "b">> }

AllUrls == {DefaultLink} \cup {strip(n) : n \in NewInputs}

\* button labels of a rendered page
LblCall  == <<"C", "a", "l", "l">>
LblJoinQ == <<" ", "J", "o", "i", "n", " ", "Q">>

\* the pages a probe can meet: the list of texts of the matching buttons
Pages == { <<>>, <<LblCall, LblJoinQ>> }

Lower == [c \in {"C", "J", "Q"} |-> CASE c = "C" -> "c" [] c = "J" -> "j" [] c = "Q" -> "q"]

lower(s) == [i \in 1..Len(s) |-> IF s[i] \in DOMAIN Lower THEN Lower[s[i]] ELSE s[i]]

\* sub in s
Contains(sub, s) ==
    \E i \in 0..(Len(s) - Len(sub)) : SubSeq(s, i + 1, i + Len(sub)) = sub

\* ------------------------------------------------------------ state
VARIABLES
    linksFile,      \* all_links.txt: [exists, readable, data: lines with their newline]
    events,         \* event files by file name: [st, rows]
    hbFile,         \* heartbeat.txt: [exists, data: characters]
    session_state,  \* per dashboard session: the keys of st.session_state
    thr,            \* per session: the polling thread that session started
    drivers,        \* browser sessions currently open
    clock,          \* wall clock
    crashes,        \* process restarts so far
    cycles,         \* polling cycles started so far, over all threads
    nSucc,          \* per link: probes that returned a result
    hbDurable       \* the heartbeat last written completely

vars == <<linksFile, events, hbFile, session_state, thr, drivers, clock,
          crashes, cycles, nSucc, hbDurable>>

Sessions == 1..MaxSessions

\* ------------------------------------------------------------ files
\* url.replace("://", "_").replace("/", "_")
safe(url) == replace(replace(url, <<":", "/", "/">>, <<"_">>), <<"/">>, <<"_">>)

Keys == {safe(u) : u \in AllUrls}

NoFile == [st |-> "absent", rows |-> <<>>]

load_links(f) ==
    IF f.exists
    THEN LET keep == SelectSeq(f.data, LAMBDA l : strip(l) # <<>>)
         IN  [i \in 1..Len(keep) |-> strip(keep[i])]
    ELSE <<DefaultLink>>

\* line 48: open() of a file that cannot be read raises
load_links_exc(f) == IF f.exists /\ ~f.readable THEN "PermissionError" ELSE ""

InSeq(x, s) == \E i \in 1..Len(s) : s[i] = x

\* f"{count}\n{last_poll}\n"
heartbeat_text(count, last_poll) == str(count) \o <<"\n">> \o last_poll \o <<"\n">>

Ret(e, c, l) == [exc |-> e, count |-> c, last_poll |-> l]

\* lines 38-41, the body of the try
read_heartbeat_try(lines) ==
    IF Len(lines) < 1 THEN Ret("IndexError", 0, None)
    ELSE LET c == int(lines[1])
         IN  IF c.exc # "" THEN Ret(c.exc, 0, None)
             ELSE IF Len(lines) < 2 THEN Ret("IndexError", 0, None)
             ELSE Ret("", c.val, strip(lines[2]))

\* read_heartbeat without its except clause
read_heartbeat_uncaught(f) ==
    IF ~f.exists THEN Ret("", 0, None)
    ELSE read_heartbeat_try(readlines(f.data))

\* lines 33-43
read_heartbeat(f) ==
    IF ~f.exists THEN Ret("", 0, None)
    ELSE LET r == read_heartbeat_try(readlines(f.data))
         IN  IF r.exc # "" THEN Ret("", 0, None) ELSE r

\* ------------------------------------------------------------ threads
NoThread == [pc |-> "none", count |-> 0, links |-> <<>>, i |-> 0,
             call_vis |-> "None", joinq_vis |-> "None", df |-> <<>>,
             last_poll |-> <<>>, exc |-> "", gained |-> [k \in Keys |-> 0],
             buttons |-> <<>>, ok |-> [k \in Keys |-> 0]]

Init ==
    /\ linksFile = [exists |-> FALSE, readable |-> TRUE, data |-> <<>>]
    /\ events = [k \in Keys |-> NoFile]
    /\ hbFile = [exists |-> FALSE, data |-> <<>>]
    /\ session_state = [s \in Sessions |-> {}]
    /\ thr = [s \in Sessions |-> NoThread]
    /\ drivers = 0
    /\ clock = 0
    /\ crashes = 0
    /\ cycles = 0
    /\ nSucc = [u \in AllUrls |-> 0]
    /\ hbDurable = Ret("", 0, None)

\* datetime.now(): the clock never runs backwards
Now == {n \in {clock, clock + 1} : n <= MaxClock}

\* ------------------------------------------------------------ dashboard
\* lines 134-139: what the sidebar answers when `new` is submitted
sidebar_message(new, links) ==
    IF ~InSeq(new, links) THEN "Link added!" ELSE "Already exists."

\* a sidebar that opens the link file with mode "w" where the code has "a"
ScriptRun_overwrite(s, new, click) ==
    LET links == load_links(linksFile)
        add   == new # <<>> /\ click
    IN  /\ \A r \in Sessions : r < s => session_state[r] # {}
        /\ session_state' = [session_state EXCEPT ![s] = @ \cup {"tracker_started"}]
        /\ thr' = IF "tracker_started" \notin session_state[s]
                  THEN [thr EXCEPT ![s] = [NoThread EXCEPT !.pc = "load"]]
                  ELSE thr
        /\ IF /\ load_links_exc(linksFile) = ""
              /\ add
              /\ sidebar_message(new, links) = "Link added!"
           THEN /\ Len(linksFile.data) < MaxLinks
                /\ linksFile' = [linksFile EXCEPT
                                   !.exists = TRUE,
                                   !.data = <<strip(new) \o <<"\n">> >>]
           ELSE UNCHANGED linksFile
        /\ UNCHANGED <<cycles, events, hbFile, drivers, clock, crashes, nSucc, hbDurable>>

\* One run of the script for session s (first load, rerun or autorefresh):
\* lines 115-117 start guard, 129-139 sidebar (a run that load_links on
\* line 129 ends with an exception adds nothing).  Lines 123-126 and 143-164
\* only display what read_heartbeat and the event file hold.  Sessions are
\* numbered in the order they are opened.
ScriptRun(s, new, click) ==
    LET links == load_links(linksFile)
        add   == new # <<>> /\ click
    IN  /\ \A r \in Sessions : r < s => session_state[r] # {}
        /\ session_state' = [session_state EXCEPT ![s] = @ \cup {"tracker_started"}]
        /\ thr' = IF "tracker_started" \notin session_state[s]
                  THEN [thr EXCEPT ![s] = [NoThread EXCEPT !.pc = "load"]]
                  ELSE thr
        /\ IF /\ load_links_exc(linksFile) = ""
              /\ add
              /\ sidebar_message(new, links) = "Link added!"
           THEN /\ Len(linksFile.data) < MaxLinks
                /\ linksFile' = [linksFile EXCEPT
                                   !.exists = TRUE,
                                   !.data = Append(@, strip(new) \o <<"\n">>)]
           ELSE UNCHANGED linksFile
        /\ UNCHANGED <<cycles, events, hbFile, drivers, clock, crashes, nSucc, hbDurable>>

\* a probe whose flags are assigned from each button in turn, so that the
\* last button decides
track_once_try_last(page, err) ==
    LET txt == lower(strip(page[Len(page)]))
    IN  IF err \/ Len(page) = 0 THEN <<"None", "None">>
        ELSE << IF Contains(<<"c", "a", "l", "l">>, txt) THEN "True" ELSE "False",
                IF \/ Contains(<<"j", "o", "i", "n", " ", "q">>, txt)
                   \/ Contains(<<"j", "o", "i", "n", "q">>, txt)
                THEN "True" ELSE "False" >>

\* ------------------------------------------------------------ page probe
\* lines 77-94: the try block of track_once on a page; err is an exception
\* raised by driver.get or find_elements; an empty page makes the wait time out
track_once_try(page, err) ==
    LET txt(i) == lower(strip(page[i]))
    IN  IF err \/ Len(page) = 0 THEN <<"None", "None">>
        ELSE << IF \E i \in 1..Len(page) : Contains(<<"c", "a", "l", "l">>, txt(i))
                THEN "True" ELSE "False",
                IF \E i \in 1..Len(page) :
                      \/ Contains(<<"j", "o", "i", "n", " ", "q">>, txt(i))
                      \/ Contains(<<"j", "o", "i", "n", "q">>, txt(i))
                THEN "True" ELSE "False" >>

\* int(True) = 1, int(False) = 0
int_bool(b) == IF b = "True" THEN 1 ELSE 0

\* ------------------------------------------------------------ polling thread
Url(t) == thr[t].links[thr[t].i]

\* a loop that reads the link file again at every step
NextLink_reload(r) ==
    LET q == [r EXCEPT !.links = load_links(linksFile)]
    IN  IF q.i < Len(q.links)
        THEN [q EXCEPT !.pc = "start", !.i = @ + 1, !.call_vis = "None",
                       !.joinq_vis = "None", !.df = <<>>, !.buttons = <<>>]
        ELSE [q EXCEPT !.pc = "hb_open", !.call_vis = "None",
                       !.joinq_vis = "None", !.df = <<>>, !.buttons = <<>>]

\* a loop that is left after its first pass
NextLink_break(r) ==
    [r EXCEPT !.pc = "hb_open", !.call_vis = "None",
              !.joinq_vis = "None", !.df = <<>>, !.buttons = <<>>]

\* the for loop moves to the next link, or leaves the loop
NextLink(r) ==
    IF r.i < Len(r.links)
    THEN [r EXCEPT !.pc = "start", !.i = @ + 1, !.call_vis = "None",
                   !.joinq_vis = "None", !.df = <<>>, !.buttons = <<>>]
    ELSE [r EXCEPT !.pc = "hb_open", !.call_vis = "None",
                   !.joinq_vis = "None", !.df = <<>>, !.buttons = <<>>]

\* an exception nobody catches ends the thread
Raise(r, e) == [r EXCEPT !.pc = "dead", !.exc = e]

\* line 101: links = load_links(), top of the while loop
Load(t) ==
    /\ thr[t].pc = "load"
    /\ cycles' = cycles + 1
    /\ LET links == load_links(linksFile)
       IN  thr' = IF load_links_exc(linksFile) # ""
                  THEN [thr EXCEPT ![t] = Raise(@, load_links_exc(linksFile))]
                  ELSE [thr EXCEPT ![t] =
                     [@ EXCEPT !.links = links,
                               !.i = IF links = <<>> THEN 0 ELSE 1,
                               !.pc = IF links = <<>> THEN "hb_open" ELSE "start",
                               !.gained = [k \in Keys |-> 0],
                               !.ok = [k \in Keys |-> 0]]]
    /\ UNCHANGED <<linksFile, events, hbFile, session_state, drivers, clock,
                   crashes, nSucc, hbDurable>>

\* lines 71-76 of track_once: install the driver and start the browser,
\* outside the try
Start(t) ==
    /\ thr[t].pc = "start"
    /\ \E ok \in BOOLEAN :
         IF ok
         THEN /\ drivers' = drivers + 1
              /\ thr' = [thr EXCEPT ![t].pc = "extract"]
         ELSE /\ drivers' = drivers
              /\ thr' = [thr EXCEPT ![t] = Raise(@, "WebDriverException")]
    /\ UNCHANGED <<linksFile, events, hbFile, session_state, clock, crashes, cycles,
                   nSucc, hbDurable>>

\* lines 77-96 of track_once and lines 103-107 of background_tracker, over
\* the pages the probe can meet
ExtractFrom(t, pages) ==
    /\ thr[t].pc = "extract"
    /\ \E page \in pages, err \in BOOLEAN :
         LET res == track_once_try(page, err)
         IN  IF res[1] # "None"
             THEN /\ thr' = [thr EXCEPT ![t] = [@ EXCEPT !.pc = "append_read",
                                                        !.call_vis = res[1],
                                                        !.joinq_vis = res[2],
                                                        !.buttons = page,
                                                        !.ok[safe(Url(t))] = @ + 1]]
                  /\ nSucc' = [nSucc EXCEPT ![Url(t)] = @ + 1]
             ELSE /\ thr' = [thr EXCEPT ![t] = NextLink(@)]
                  /\ nSucc' = nSucc
    \* line 96, finally: driver.quit()
    /\ drivers' = drivers - 1
    /\ UNCHANGED <<linksFile, events, hbFile, session_state, clock, crashes, cycles,
                   hbDurable>>

\* a probe that calls driver.quit() at the end of the try block only
Extract_leak(t) ==
    /\ thr[t].pc = "extract"
    /\ \E page \in Pages, err \in BOOLEAN :
         LET res == track_once_try(page, err)
         IN  IF res[1] # "None"
             THEN /\ thr' = [thr EXCEPT ![t] = [@ EXCEPT !.pc = "append_read",
                                                        !.call_vis = res[1],
                                                        !.joinq_vis = res[2],
                                                        !.buttons = page,
                                                        !.ok[safe(Url(t))] = @ + 1]]
                  /\ nSucc' = [nSucc EXCEPT ![Url(t)] = @ + 1]
                  /\ drivers' = drivers - 1
             ELSE /\ thr' = [thr EXCEPT ![t] = NextLink(@)]
                  /\ nSucc' = nSucc
                  /\ drivers' = drivers
    /\ UNCHANGED <<linksFile, events, hbFile, session_state, clock, crashes, cycles,
                   hbDurable>>

Extract(t) == ExtractFrom(t, Pages)

\* lines 56-67 of append_log: read the file, build the new frame
AppendRead(t) ==
    /\ thr[t].pc = "append_read"
    /\ LET f == events[safe(Url(t))]
       IN  IF f.st = "empty"
           THEN /\ thr' = [thr EXCEPT ![t] = Raise(@, "EmptyDataError")]
                /\ clock' = clock
           ELSE \E now \in Now :
                  /\ clock' = now
                  /\ thr' = [thr EXCEPT ![t] =
                       [@ EXCEPT !.pc = "append_trunc",
                                 !.df = Append(f.rows,
                                   [datetime |-> now,
                                    Available_For_Call |-> int_bool(thr[t].call_vis),
                                    On_Call |-> int_bool(thr[t].joinq_vis)])]]
    /\ UNCHANGED <<linksFile, events, hbFile, session_state, drivers, crashes, cycles,
                   nSucc, hbDurable>>

\* line 68, df.to_csv opens the file for writing
AppendTrunc(t) ==
    /\ thr[t].pc = "append_trunc"
    /\ events' = [events EXCEPT ![safe(Url(t))] = [st |-> "empty", rows |-> <<>>]]
    /\ thr' = [thr EXCEPT ![t].pc = "append_write"]
    /\ UNCHANGED <<linksFile, hbFile, session_state, drivers, clock, crashes, cycles,
                   nSucc, hbDurable>>

\* line 68, df.to_csv writes header and rows and closes the file
AppendWrite(t) ==
    /\ thr[t].pc = "append_write"
    /\ events' = [events EXCEPT ![safe(Url(t))] = [st |-> "csv", rows |-> thr[t].df]]
    /\ thr' = [thr EXCEPT ![t] =
                 NextLink([@ EXCEPT !.gained[safe(Url(t))] = @ + 1])]
    /\ UNCHANGED <<linksFile, hbFile, session_state, drivers, clock, crashes, cycles,
                   nSucc, hbDurable>>

\* lines 108-110 and line 30: count the cycle, take the time, open the
\* heartbeat file for writing
HbOpen(t) ==
    /\ thr[t].pc = "hb_open"
    /\ \E now \in Now :
         /\ clock' = now
         /\ thr' = [thr EXCEPT ![t] = [@ EXCEPT !.pc = "hb_write",
                                               !.count = @ + 1,
                                               !.last_poll = strftime(now)]]
    /\ hbFile' = [exists |-> TRUE, data |-> <<>>]
    /\ UNCHANGED <<linksFile, events, session_state, drivers, crashes, cycles, nSucc, hbDurable>>

\* line 31 and the end of the with block; line 111
HbWrite(t) ==
    /\ thr[t].pc = "hb_write"
    /\ hbFile' = [exists |-> TRUE,
                  data |-> heartbeat_text(thr[t].count, thr[t].last_poll)]
    /\ hbDurable' = Ret("", thr[t].count, thr[t].last_poll)
    /\ thr' = [thr EXCEPT ![t].pc = "sleep"]
    /\ UNCHANGED <<linksFile, events, session_state, drivers, clock, crashes, cycles,
                   nSucc>>

\* line 112
Sleep(t) ==
    /\ thr[t].pc = "sleep"
    /\ thr' = [thr EXCEPT ![t].pc = "load"]
    /\ UNCHANGED <<linksFile, events, hbFile, session_state, drivers, clock,
                   crashes, cycles, nSucc, hbDurable>>

\* the process is killed and started again: memory is lost, files stay
Crash ==
    /\ crashes < MaxCrashes
    /\ crashes' = crashes + 1
    /\ session_state' = [s \in Sessions |-> {}]
    /\ thr' = [s \in Sessions |-> NoThread]
    /\ drivers' = 0
    /\ UNCHANGED <<cycles, linksFile, events, hbFile, clock, nSucc, hbDurable>>

background_tracker(t) ==
    \/ Start(t)
    \/ Extract(t)
    \/ AppendRead(t)
    \/ AppendTrunc(t)
    \/ AppendWrite(t)
    \/ HbOpen(t)
    \/ HbWrite(t)
    \/ Sleep(t)

Next ==
    \/ \E s \in Sessions, new \in NewInputs \cup {<<>>}, click \in BOOLEAN :
         ScriptRun(s, new, click)
    \/ \E t \in Sessions : cycles < MaxCycles /\ Load(t)
    \/ \E t \in Sessions : background_tracker(t)
    \/ Crash

Spec == Init /\ [][Next]_vars

\* the same program with one dashboard session, so one polling thread
NextSolo ==
    \/ \E new \in NewInputs \cup {<<>>}, click \in BOOLEAN : ScriptRun(1, new, click)
    \/ cycles < MaxCyclesSolo /\ Load(1)
    \/ background_tracker(1)
    \/ Crash

SpecSolo == Init /\ [][NextSolo]_vars

\* ------------------------------------------------------------ read_heartbeat
\* on any file content
HbAlphabet == {"1", "2", "x", "-", " ", "\n"}

RECURSIVE TextsUpTo(_)
TextsUpTo(n) ==
    IF n = 0 THEN {<<>>}
    ELSE LET shorter == TextsUpTo(n - 1)
         IN  shorter \cup {Append(t, c) : t \in {u \in shorter : Len(u) = n - 1},
                                          c \in HbAlphabet}

InitRead ==
    /\ linksFile = [exists |-> FALSE, readable |-> TRUE, data |-> <<>>]
    /\ events = [k \in Keys |-> NoFile]
    /\ hbFile \in {[exists |-> FALSE, data |-> <<>>]}
                  \cup {[exists |-> TRUE, data |-> d] : d \in TextsUpTo(MaxHbLen)}
    /\ session_state = [s \in Sessions |-> {}]
    /\ thr = [s \in Sessions |-> NoThread]
    /\ drivers = 0
    /\ clock = 0
    /\ crashes = 0
    /\ cycles = 0
    /\ nSucc = [u \in AllUrls |-> 0]
    /\ hbDurable = Ret("", 0, None)

\* the dashboard alone: every script run calls read_heartbeat on the file
NextRead ==
    \E s \in Sessions : ScriptRun(s, <<>>, FALSE)

SpecRead == InitRead /\ [][NextRead]_vars

\* ------------------------------------------------------------ load_links
\* on any link file: absent, readable or not, with up to MaxLinks lines
LinkLines == {strip(n) \o <<"\n">> : n \in NewInputs}

RECURSIVE LinkFilesUpTo(_)
LinkFilesUpTo(n) ==
    IF n = 0 THEN {<<>>}
    ELSE LET shorter == LinkFilesUpTo(n - 1)
         IN  shorter \cup {Append(d, l) : d \in {x \in shorter : Len(x) = n - 1},
                                          l \in LinkLines}

InitLoad ==
    /\ linksFile \in {[exists |-> FALSE, readable |-> TRUE, data |-> <<>>]}
                     \cup {[exists |-> TRUE, readable |-> r, data |-> d] :
                              r \in BOOLEAN, d \in LinkFilesUpTo(MaxLinks)}
    /\ events = [k \in Keys |-> NoFile]
    /\ hbFile = [exists |-> FALSE, data |-> <<>>]
    /\ session_state = [s \in Sessions |-> {}]
    /\ thr = [s \in Sessions |-> NoThread]
    /\ drivers = 0
    /\ clock = 0
    /\ crashes = 0
    /\ cycles = 0
    /\ nSucc = [u \in AllUrls |-> 0]
    /\ hbDurable = Ret("", 0, None)

\* one dashboard session and its polling thread over such a file
NextLoad ==
    \/ ScriptRun(1, <<>>, FALSE)
    \/ cycles < MaxCycles /\ Load(1)
    \/ background_tracker(1)

SpecLoad == InitLoad /\ [][NextLoad]_vars

\* ------------------------------------------------------------ file names
\* of any two URLs in the link file
UrlAlphabet == {"a", ":", "/", "_"}

RECURSIVE UrlsUpTo(_)
UrlsUpTo(n) ==
    IF n = 0 THEN {<<>>}
    ELSE LET shorter == UrlsUpTo(n - 1)
         IN  shorter \cup {Append(u, c) : u \in {x \in shorter : Len(x) = n - 1},
                                          c \in UrlAlphabet}

InitKey ==
    /\ linksFile \in {[exists |-> TRUE, readable |-> TRUE,
                        data |-> <<u \o <<"\n">>, v \o <<"\n">> >>] :
                          u \in UrlsUpTo(MaxUrlLen) \ {<<>>},
                          v \in UrlsUpTo(MaxUrlLen) \ {<<>>}}
    /\ events = [k \in Keys |-> NoFile]
    /\ hbFile = [exists |-> FALSE, data |-> <<>>]
    /\ session_state = [s \in Sessions |-> {}]
    /\ thr = [s \in Sessions |-> NoThread]
    /\ drivers = 0
    /\ clock = 0
    /\ crashes = 0
    /\ cycles = 0
    /\ nSucc = [u \in AllUrls |-> 0]
    /\ hbDurable = Ret("", 0, None)

\* the dashboard alone: lines 143-147 name the event file of the selected link
NextKey ==
    \E s \in Sessions : ScriptRun(s, <<>>, FALSE)

SpecKey == InitKey /\ [][NextKey]_vars

\* ------------------------------------------------------------ track_once
\* on any list of up to MaxButtons button labels
LblJoinq == <<"J", "o", "i", "n", "Q">>
LblChat  == <<"C", "h", "a", "t", " ">>
LblBoth  == LblJoinQ \o <<" ">> \o LblCall

Labels == {LblCall, LblJoinQ, LblJoinq, LblChat, LblBoth}

RECURSIVE PagesUpTo(_)
PagesUpTo(n) ==
    IF n = 0 THEN {<<>>}
    ELSE LET shorter == PagesUpTo(n - 1)
         IN  shorter \cup {Append(p, l) : p \in {x \in shorter : Len(x) = n - 1},
                                          l \in Labels}

LabelPages == PagesUpTo(MaxButtons)

\* the polling thread of the first dashboard session has been started
InitProbe ==
    /\ linksFile = [exists |-> FALSE, readable |-> TRUE, data |-> <<>>]
    /\ events = [k \in Keys |-> NoFile]
    /\ hbFile = [exists |-> FALSE, data |-> <<>>]
    /\ session_state = [s \in Sessions |-> IF s = 1 THEN {"tracker_started"} ELSE {}]
    /\ thr = [s \in Sessions |-> IF s = 1 THEN [NoThread EXCEPT !.pc = "load"]
                                           ELSE NoThread]
    /\ drivers = 0
    /\ clock = 0
    /\ crashes = 0
    /\ cycles = 0
    /\ nSucc = [u \in AllUrls |-> 0]
    /\ hbDurable = Ret("", 0, None)

\* the polling thread alone, probing pages with any of the label lists
NextProbe ==
    \/ cycles < MaxCycles /\ Load(1)
    \/ Start(1)
    \/ ExtractFrom(1, LabelPages)
    \/ AppendRead(1)
    \/ AppendTrunc(1)
    \/ AppendWrite(1)
    \/ HbOpen(1)
    \/ HbWrite(1)
    \/ Sleep(1)

SpecProbe == InitProbe /\ [][NextProbe]_vars

\* ------------------------------------------------------------ claims
Appending(t) == thr[t].pc \in {"append_read", "append_trunc", "append_write"}

Rows(u) == events[safe(u)].rows

\* C1: a probe failure of one link, a failure to start the browser session
\* included, never aborts the cycle: no polling thread over two or more links
\* is ever ended by an exception of the probe.
C1_ProbeFailureNeverAbortsCycle ==
    \A t \in Sessions :
        ~(thr[t].pc = "dead" /\ thr[t].exc = "WebDriverException"
          /\ Len(thr[t].links) >= 2)

\* C2: a failed probe adds no row and does not raise past track_once: no
\* exception of the probe reaches background_tracker, and append_log runs only
\* with a result that is not None.
C2_FailedProbeContained ==
    \A t \in Sessions :
        /\ thr[t].exc # "WebDriverException"
        /\ Appending(t) => thr[t].call_vis # "None"

\* C3: whenever no append is in flight (and the process was never killed), the
\* event file of every link of the registry holds as many rows as that link
\* had successful probes, with non-decreasing timestamps.
C3_RowsEqualSuccessfulProbes ==
    (crashes = 0 /\ \A t \in Sessions : ~Appending(t)) =>
        \A u \in {x \in AllUrls : InSeq(x, load_links(linksFile))} :
            /\ Len(Rows(u)) = nSucc[u]
            /\ \A i \in 1..(Len(Rows(u)) - 1) :
                   Rows(u)[i].datetime <= Rows(u)[i + 1].datetime

\* C4: at most one polling thread is started per process lifetime, whatever
\* the number of script runs and dashboard sessions.
C4_OneSchedulerPerProcess ==
    Cardinality({t \in Sessions : thr[t].pc # "none"}) <= 1

\* C5: over every heartbeat write, restarts included, the completely written
\* poll_count never decreases and neither does last_poll_time.
C5_HeartbeatMonotonic ==
    [][ /\ hbDurable'.count >= hbDurable.count
        /\ (hbDurable.last_poll # None /\ hbDurable'.last_poll # None) =>
               digitsValue(hbDurable'.last_poll) >= digitsValue(hbDurable.last_poll)
      ]_vars

\* C6: every completed cycle advances the written poll_count by exactly 1 and
\* the heartbeat write changes no event file.
C6_HeartbeatAdvancesByOne ==
    [][ \A t \in Sessions :
          (thr[t].pc = "hb_write" /\ thr'[t].pc = "sleep") =>
              /\ hbDurable'.count = hbDurable.count + 1
              /\ events' = events
      ]_vars

\* C7: within one cycle of a polling thread no event file gains more than one
\* record.
C7_OneRecordPerLinkPerCycle ==
    \A t \in Sessions : \A k \in Keys : thr[t].gained[k] <= 1

\* C8: submitting a URL that load_links already returns changes nothing and
\* answers "Already exists."; submitting any other URL grows the link file by
\* exactly one line and load_links returns that URL from then on.
C8_AddIfAbsent ==
    [][ \A s \in Sessions : \A new \in NewInputs :
          ScriptRun(s, new, TRUE) =>
              IF InSeq(new, load_links(linksFile))
              THEN /\ linksFile' = linksFile
                   /\ sidebar_message(new, load_links(linksFile)) = "Already exists."
              ELSE /\ Len(linksFile'.data) = Len(linksFile.data) + 1
                   /\ InSeq(new, load_links(linksFile'))
      ]_vars

\* C9: in every state, what read_heartbeat returns is the heartbeat last
\* written completely or the one a polling thread is writing now.
C9_NoTornHeartbeatRead ==
    read_heartbeat(hbFile) \in
        {hbDurable} \cup {Ret("", thr[t].count, thr[t].last_poll) :
                             t \in {x \in Sessions : thr[x].pc = "hb_write"}}

\* a text up to and with its first newline, or the whole text
FirstLine(d) ==
    LET nl == {i \in 1..Len(d) : d[i] = "\n"}
    IN  IF nl = {} THEN d ELSE SubSeq(d, 1, CHOOSE i \in nl : \A j \in nl : i <= j)

\* C10: read_heartbeat never raises; it returns (0, None) when the file is
\* absent, empty, has no second line or has a first line that is no integer,
\* and returns the written count and timestamp when the file holds a
\* heartbeat as write_heartbeat writes it.
C10_ReadHeartbeatTotal ==
    LET r == read_heartbeat(hbFile)
        d == hbFile.data
        first == FirstLine(d)
        noSecond == Len(first) = Len(d)
        noInteger == \/ \E i \in 1..Len(first) :
                          first[i] \notin DigitSet \cup {"-", "+"} \cup Whitespace
                     \/ \A i \in 1..Len(first) : first[i] \notin DigitSet
    IN  /\ r.exc = ""
        /\ ~hbFile.exists => r = Ret("", 0, None)
        /\ (hbFile.exists /\ (d = <<>> \/ noSecond \/ noInteger)) => r = Ret("", 0, None)
        /\ \A c \in 0..MaxHbCount : \A k \in 1..Len(d) :
               LET ts == SubSeq(d, k, Len(d) - 1)
               IN  (hbFile.exists /\ strip(ts) = ts /\ d = heartbeat_text(c, ts))
                       => r = Ret("", c, ts)

\* C11: load_links never fails: no polling thread is ended by an exception of
\* load_links, and a thread that passed line 101 holds the lines of the link
\* file when the file is there and the default link when it is absent or
\* cannot be read.
C11_LoadNeverFails ==
    \A t \in Sessions :
        /\ thr[t].exc # "PermissionError"
        /\ thr[t].pc \in {"start", "extract"} =>
               thr[t].links = IF linksFile.exists /\ linksFile.readable
                              THEN load_links(linksFile) ELSE <<DefaultLink>>

\* C12: a malformed event file never ends the polling thread: append_log
\* raises nothing past background_tracker, so no thread is ended by the
\* exception of reading an event file.
C12_StorageErrorContained ==
    \A t \in Sessions : ~(thr[t].pc = "dead" /\ thr[t].exc = "EmptyDataError")

\* C13: any two distinct URLs of the link file have different event file
\* names.
C13_SafeInjective ==
    LET links == load_links(linksFile)
    IN  session_state[1] # {} =>
            \A i, j \in 1..Len(links) :
                links[i] # links[j] => safe(links[i]) # safe(links[j])

InCycle(t) == thr[t].pc \in {"start", "extract", "append_read", "append_trunc",
                              "append_write"}

\* C14: the links of a cycle are the ones load_links returns on line 101 at
\* the start of that cycle: that step takes every link of the file, no other
\* step changes the list the thread walks through, and every probe is of a
\* link of that list.
C14_RegistryFixedPerCycle ==
    [][ \A t \in Sessions :
          /\ IF thr[t].pc = "load" /\ thr'[t].pc \in {"start", "hb_open"}
             THEN thr'[t].links = load_links(linksFile)
             ELSE (thr[t].pc # "none" /\ thr'[t].pc # "none") =>
                      thr'[t].links = thr[t].links
          /\ thr'[t].pc \in {"start", "extract", "append_read", "append_trunc",
                              "append_write"} =>
                 thr'[t].i \in 1..Len(thr'[t].links)
      ]_vars

\* a polling thread is inside a cycle whose list is no longer the link file's
C14_Witness ==
    \E t \in Sessions :
        /\ InCycle(t)
        /\ linksFile.exists
        /\ thr[t].links # load_links(linksFile)

\* C15: the polling thread has no terminal state: a thread that was started
\* is always at a step of the while loop of background_tracker, from which the
\* cycle goes on to the heartbeat, the sleep and the next cycle.
C15_NoTerminalState ==
    \A t \in Sessions :
        thr[t].pc \in {"none", "load", "start", "extract", "append_read",
                       "append_trunc", "append_write", "hb_open", "hb_write",
                       "sleep"}

\* C16: a browser session is open exactly while its probe is between
\* webdriver.Chrome(...) and the return of track_once, whatever the exit path,
\* so with one polling thread at most one session is open.
C16_BrowserSessionTerminated ==
    /\ drivers = Cardinality({t \in Sessions : thr[t].pc = "extract"})
    /\ drivers <= 1

\* a probe has failed inside the try block and the thread has gone on
C16_Witness ==
    /\ thr[1].pc = "hb_open"
    /\ Len(thr[1].links) > 0
    /\ \A u \in AllUrls : nSucc[u] = 0
    /\ drivers = 0

\* C17: append_log of one link writes that link's rows as they were followed
\* by one new row, and changes neither the rows of any other link of the
\* registry, nor the link file, nor the heartbeat file.
C17_AppendLogFrame ==
    [][ \A t \in Sessions :
          (Appending(t) /\ thr'[t].pc # thr[t].pc
                        /\ thr'[t].pc # "dead" /\ thr'[t].pc # "none") =>
              /\ linksFile' = linksFile
              /\ hbFile' = hbFile
              /\ \A u \in AllUrls :
                     (InSeq(u, thr[t].links) /\ u # Url(t)) => Rows(u)' = Rows(u)
              /\ thr[t].pc = "append_trunc" =>
                     thr[t].df = Append(Rows(Url(t)), thr[t].df[Len(thr[t].df)])
              /\ thr[t].pc = "append_write" => Rows(Url(t))' = thr[t].df
      ]_vars

\* the labels that hold "call", and those that hold "join q" or "joinq", once
\* trimmed and lower-cased
HasCall == {LblCall, LblBoth}
HasJoin == {LblJoinQ, LblJoinq, LblBoth}

\* C18: a probe that returned a result returned available_for_call = true
\* exactly when some button label holds "call", and on_call = true exactly when
\* some button label holds "join q" or "joinq", each flag on its own.
C18_FlagsAreOrOverLabels ==
    \A t \in Sessions :
        thr[t].pc = "append_read" =>
            LET b == thr[t].buttons
            IN  /\ thr[t].call_vis =
                      IF \E i \in 1..Len(b) : b[i] \in HasCall THEN "True" ELSE "False"
                /\ thr[t].joinq_vis =
                      IF \E i \in 1..Len(b) : b[i] \in HasJoin THEN "True" ELSE "False"

\* a page whose first button alone sets one flag and whose last sets neither
C18_Witness ==
    /\ thr[1].pc = "append_read"
    /\ thr[1].buttons = <<LblJoinq, LblChat>>
    /\ thr[1].call_vis = "False"
    /\ thr[1].joinq_vis = "True"

\* C19 as stated: a URL that load_links returns is returned by load_links
\* after every step, the built-in default returned while no link file exists
\* included.
C19_RegistryNeverLosesLink ==
    [][ \A u \in AllUrls :
          InSeq(u, load_links(linksFile)) => InSeq(u, load_links(linksFile'))
      ]_vars

\* C19 as amended: a URL that is a line of the link file is returned by
\* load_links after every step, and the built-in default is what load_links
\* returns exactly while no link file exists.
C19_FileLinksNeverLost ==
    [][ /\ \A u \in AllUrls :
             (linksFile.exists /\ InSeq(u, load_links(linksFile))) =>
                 (linksFile'.exists /\ InSeq(u, load_links(linksFile')))
        /\ ~linksFile'.exists => load_links(linksFile') = <<DefaultLink>>
      ]_vars

\* two links were added, the first of them while no link file existed
C19_Witness ==
    /\ linksFile.exists
    /\ Len(load_links(linksFile)) = 2
    /\ ~InSeq(DefaultLink, load_links(linksFile))

\* C20: when a thread counts a cycle and writes its heartbeat, the loop over
\* the links of that cycle has reached the last link, and every probe of the
\* cycle that returned a result has had its row written by append_log.
C20_HeartbeatAfterAppends ==
    \A t \in Sessions :
        thr[t].pc \in {"hb_open", "hb_write", "sleep"} =>
            /\ thr[t].i = Len(thr[t].links)
            /\ \A k \in Keys : thr[t].gained[k] = thr[t].ok[k]

\* the heartbeat of a cycle over two links, both probed with a result
C20_Witness ==
    \E t \in Sessions :
        /\ thr[t].pc = "hb_write"
        /\ Len(thr[t].links) = 2
        /\ \A j \in 1..2 : thr[t].ok[safe(thr[t].links[j])] >= 1

\* a script run has read a heartbeat file that has a first line and no second
C10_Witness ==
    /\ session_state[1] # {}
    /\ hbFile.exists
    /\ Len(readlines(hbFile.data)) = 1
    /\ read_heartbeat(hbFile) = Ret("", 0, None)

====
